---------------------------- MODULE Spec2Model ----------------------------
(***************************************************************************)
(* gorsync: mirroring of a source tree into a backup tree.                 *)
(*                                                                         *)
(* Two implementations of the backup command live in the repository:       *)
(*   "limited"  src/unnamed/part_000  (semaphore + WaitGroup, shouldInclude)*)
(*   "plain"    src/cmd/root.go       (sequential copy, matchesAnyInclude)  *)
(* Each runs either on a schedule (schedulePeriod > 0: gocron calls        *)
(* runScheduledBackup on every tick) or as a watcher (runRealTimeSync).    *)
(*                                                                         *)
(* Strings are sequences of one-character strings, so that filepath.Base,  *)
(* filepath.Dir, filepath.Rel, filepath.Join and strings.Contains are      *)
(* computed, not assumed.                                                  *)
(***************************************************************************)
EXTENDS Naturals, Sequences, FiniteSets

(***************************************************************************)
(* Bounds of the model.                                                    *)
(***************************************************************************)
\* scheduler ticks (sync invocations) in one behaviour
MaxRuns == 2
\* largest --max-transfers value tried (0 .. MaxPermits)
MaxPermits == 3
\* upsets from outside in one behaviour: source files the user rewrites or
\* removes, and I/O failures (permissions, a full disk) of transfer steps
MaxUpsets == 1
\* notifications delivered by the watcher
MaxEvents == 2
\* largest modification time of the trees the detector is tried on
MaxStamp == 2

(***************************************************************************)
(* Strings and paths.                                                      *)
(***************************************************************************)
Sep == "/"
Dot == <<".">>

\* strings.Contains(s, substr)
Contains(s, substr) ==
    \E i \in 0..Len(s) :
        /\ i + Len(substr) <= Len(s)
        /\ SubSeq(s, i + 1, i + Len(substr)) = substr

\* index of the last separator of s, 0 when there is none
LastSep(s) ==
    LET idx == {i \in 1..Len(s) : s[i] = Sep}
    IN  IF idx = {} THEN 0 ELSE CHOOSE i \in idx : \A j \in idx : j <= i

\* s without its trailing separators
RECURSIVE StripSep(_)
StripSep(s) ==
    IF s # <<>> /\ s[Len(s)] = Sep THEN StripSep(SubSeq(s, 1, Len(s) - 1)) ELSE s

\* filepath.Base(path)
Base(path) ==
    IF path = <<>> THEN Dot
    ELSE LET p == StripSep(path)
         IN  IF p = <<>> THEN <<Sep>> ELSE SubSeq(p, LastSep(p) + 1, Len(p))

\* filepath.Dir(path)
Dir(path) ==
    LET i == LastSep(path)
        d == StripSep(SubSeq(path, 1, i))
    IN  IF i = 0 THEN Dot
        ELSE IF d = <<>> THEN <<Sep>> ELSE d

\* filepath.Join(a, b) for clean a and a clean relative b
Join(a, b) ==
    IF b = Dot \/ b = <<>> THEN a
    ELSE IF a = <<Sep>> THEN a \o b
    ELSE a \o <<Sep>> \o b

\* filepath.Rel(base, targ) for targ equal to base or below it
Rel(base, targ) ==
    IF targ = base THEN Dot
    ELSE SubSeq(targ, Len(base) + 2, Len(targ))

(***************************************************************************)
(* The file system: one name space holding both trees.                     *)
(***************************************************************************)
FsRoot == <<Sep>>
sourceDir == <<Sep, "s">>
backupDir == <<Sep, "t">>

FileA == Join(sourceDir, <<"a">>)
DirD == Join(sourceDir, <<"d">>)
FileB == Join(DirD, <<"b">>)
SrcPaths == {sourceDir, FileA, DirD, FileB}
SrcFiles == {FileA, FileB}
\* the source files the user rewrites or removes while the program runs
UserFiles == {FileA}

\* the mirrored place of a source path: the walk's and the watcher's
\* relPath := filepath.Rel(src, path); destPath := filepath.Join(dst, relPath)
DestPath(src, dst, path) == Join(dst, Rel(src, path))

\* a file of the backup tree that never had a source counterpart
Orphan == Join(backupDir, <<"x">>)
DstPaths == {DestPath(sourceDir, backupDir, p) : p \in SrcPaths} \cup {Orphan}
Universe == {FsRoot} \cup SrcPaths \cup DstPaths

\* permission bits
ModeDir == "rwxr-xr-x"
ModeCreate == "rw-r--r--"
SrcMode(p) ==
    IF p = FileA THEN "rw-------"
    ELSE IF p = FileB THEN "rw-r-----"
    ELSE ModeDir

NoEntry == [kind |-> "none", c1 |-> 0, c2 |-> 0, mtime |-> 0, mode |-> ""]
DirEntry(m) == [kind |-> "dir", c1 |-> 0, c2 |-> 0, mtime |-> 0, mode |-> m]
FileEntry(v, t, m) == [kind |-> "file", c1 |-> v, c2 |-> v, mtime |-> t, mode |-> m]

Alphabet == <<Sep, "a", "b", "d", "s", "t", "x">>
Rank(c) == CHOOSE i \in 1..Len(Alphabet) : Alphabet[i] = c

\* s < t in the byte order sort.Strings uses
RECURSIVE StrLess(_, _)
StrLess(s, t) ==
    IF t = <<>> THEN FALSE
    ELSE IF s = <<>> THEN TRUE
    ELSE IF s[1] # t[1] THEN Rank(s[1]) < Rank(t[1])
    ELSE StrLess(Tail(s), Tail(t))

\* the elements of a set of strings in increasing order
RECURSIVE Sorted(_)
Sorted(S) ==
    IF S = {} THEN <<>>
    ELSE LET m == CHOOSE x \in S : \A y \in S \ {x} : StrLess(x, y)
         IN  <<m>> \o Sorted(S \ {m})


(***************************************************************************)
(* State.                                                                  *)
(***************************************************************************)
VARIABLES
    impl,                   \* which implementation of the command runs
    schedulePeriod,         \* --interval; 0 selects the watcher
    maxConcurrentTransfers, \* --max-transfers
    includePatterns,        \* --include (includePaths in root.go)
    fs,                     \* the file system
    now,                    \* the clock modification times are taken from
    upsets,                 \* source changes and I/O failures so far
    nruns,                  \* scheduler ticks so far
    run,                    \* per sync invocation: the walk, sem, wg, result
    xfer,                   \* per owner and source path: copyFileWithProgress
    watched,                \* directories registered with the notifier
    events,                 \* watcher.Events
    nevents,                \* notifications delivered so far
    errors,                 \* watcher.Errors: values waiting to be received
    closed,                 \* the notifier's channels that have been closed
    logged,                 \* "Error:" lines the event loop has printed
    wpc,                    \* the watcher goroutine
    startedClean,           \* history: per run, the files that a sync run had
                            \*   copied and that were not newer than their
                            \*   copy when the run started
    startVersion            \* history: per run, the content every source file
                            \*   had when the run started

vars == <<impl, schedulePeriod, maxConcurrentTransfers, includePatterns, fs,
          now, upsets, nruns, run, xfer, watched, events, nevents,
          errors, closed, logged,
          wpc, startedClean, startVersion>>

config == <<impl, schedulePeriod, maxConcurrentTransfers, includePatterns>>
history == <<startedClean, startVersion>>
watcherVars == <<watched, events, nevents, errors, closed, logged, wpc>>

Runs == 1..MaxRuns
Watcher == 0
Owners == {Watcher} \cup Runs

\* the --include lists tried
PatternChoices == {<<>>, << <<"a">> >>, << <<"d">> >>}

\* the notifier's operations (fsnotify.Op is a bit set)
OpChoices == {{"Create"}, {"Write"}, {"Remove"}, {"Rename"}, {"Chmod"},
              {"Write", "Chmod"}}

IdleRun == [pc |-> "idle", todo |-> <<>>, sem |-> 0, wg |-> 0, result |-> ""]
NoXfer == [st |-> "none", dst |-> <<>>]

\* the source tree, and a backup tree that is either absent or holds only
\* a file that has no source counterpart
SourceTree ==
    [p \in Universe |->
        IF p \in SrcFiles THEN FileEntry(1, 0, SrcMode(p))
        ELSE IF p \in {FsRoot, sourceDir, DirD} THEN DirEntry(SrcMode(p))
        ELSE NoEntry]
PopulatedTree ==
    [SourceTree EXCEPT ![backupDir] = DirEntry(ModeDir),
                       ![Orphan] = FileEntry(9, 0, ModeCreate)]
InitialTrees == {SourceTree, PopulatedTree}

\* the flag values tried: every --max-transfers value with every include
\* list for the scheduled part_000; the backup tree is absent at the start
\* only with the default --max-transfers
Init ==
    /\ impl \in {"limited", "plain"}
    /\ schedulePeriod \in {0, 1}
    /\ maxConcurrentTransfers \in
          IF impl = "limited" /\ schedulePeriod > 0 THEN 0..MaxPermits ELSE {1}
    /\ includePatterns \in PatternChoices
    /\ fs \in IF maxConcurrentTransfers = 1 THEN InitialTrees
                                             ELSE {PopulatedTree}
    /\ now = 0
    /\ upsets = 0
    /\ nruns = 0
    /\ run = [i \in Runs |-> IdleRun]
    /\ xfer = [o \in Owners |-> [p \in SrcPaths |-> NoXfer]]
    /\ watched = {}
    /\ events = <<>>
    /\ nevents = 0
    /\ errors = 0
    /\ closed = {}
    /\ logged = 0
    /\ wpc = IF schedulePeriod > 0 THEN "off" ELSE "start"
    /\ startedClean = [i \in Runs |-> {}]
    /\ startVersion = [i \in Runs |-> [p \in SrcFiles |-> 0]]

(***************************************************************************)
(* os.Stat, os.MkdirAll, directory listing.                                *)
(***************************************************************************)
\* q is a proper ancestor of p
IsUnder(q, p) ==
    /\ Len(q) < Len(p)
    /\ SubSeq(p, 1, Len(q)) = q
    /\ (q = FsRoot \/ p[Len(q) + 1] = Sep)

\* some proper ancestor of p is a regular file
UnderFile(p) == \E q \in Universe : IsUnder(q, p) /\ fs[q].kind = "file"

\* os.Stat(p): "ok", "ENOENT" (os.IsNotExist) or "ENOTDIR" (any other error)
Stat(p) ==
    IF UnderFile(p) THEN "ENOTDIR"
    ELSE IF fs[p].kind = "none" THEN "ENOENT"
    ELSE "ok"

\* p and its ancestors
Ancestors(p) == {p} \cup {q \in Universe : IsUnder(q, p)}

\* os.MkdirAll(p, mode) where no ancestor is a regular file
MkdirAll(f, p, m) ==
    [q \in Universe |->
        IF q \in Ancestors(p) /\ f[q].kind = "none" THEN DirEntry(m) ELSE f[q]]

\* readDirNames(dir): the entries of dir, sorted
ReadDirNames(dir) ==
    Sorted({p \in Universe : p # dir /\ Dir(p) = dir /\ fs[p].kind # "none"})

(***************************************************************************)
(* Staleness Detector and Inclusion Filter.                                *)
(***************************************************************************)
\* a detector that also copies when the two times are equal
shouldCopyFileNotBefore(src, dst) ==
    IF Stat(dst) = "ENOENT" THEN TRUE
    ELSE IF Stat(dst) # "ok" THEN FALSE
    ELSE fs[src].mtime >= fs[dst].mtime

\* a detector that takes every failure of os.Stat for a missing file
shouldCopyFileAnyError(src, dst) ==
    IF Stat(dst) # "ok" THEN TRUE
    ELSE fs[src].mtime > fs[dst].mtime

\* shouldCopyFile(src, dst, srcInfo)
shouldCopyFile(src, dst) ==
    IF Stat(dst) = "ENOENT" THEN TRUE
    ELSE IF Stat(dst) # "ok" THEN FALSE
    ELSE fs[src].mtime > fs[dst].mtime

\* shouldInclude(path), part_000
shouldInclude(path) ==
    IF Len(includePatterns) = 0 THEN TRUE
    ELSE \E k \in 1..Len(includePatterns) :
            Contains(Base(path), includePatterns[k])

\* a filter that looks at the base name only
matchesAnyIncludeBase(path, includes) ==
    \E k \in 1..Len(includes) : Contains(Base(path), includes[k])

\* matchesAnyInclude(path, includes), root.go
matchesAnyInclude(path, includes) ==
    \E k \in 1..Len(includes) :
        \/ Contains(Base(path), includes[k])
        \/ Contains(Dir(path), includes[k])

\* shouldWatch(path, includes), root.go
shouldWatch(path, includes) ==
    IF Len(includes) = 0 THEN TRUE
    ELSE \E k \in 1..Len(includes) :
            \/ Contains(Base(path), includes[k])
            \/ Contains(Dir(path), includes[k])

(***************************************************************************)
(* File Transfer Unit: copyFileWithProgress(src, dst).                     *)
(* xfer[o][p].st names the step the call is about to take:                 *)
(*   open   os.Open(src), os.Create(dst), srcFile.Stat()                   *)
(*   copy1  io.Copy, first half of the stream                              *)
(*   copy2  io.Copy, second half; dstFile.Sync(); os.Chmod(dst, mode)      *)
(* and ends as ok (nil returned) or err.                                   *)
(***************************************************************************)
Active(o, p) == xfer[o][p].st \in {"open", "copy1", "copy2"}
HoldsSource(o, p) == xfer[o][p].st \in {"copy1", "copy2"}

\* the transfers of a sync invocation that were started and have not returned
InFlight(i) == {p \in SrcPaths : Active(i, p)}

\* part_000: the goroutine around the copy ends: <-sem, then wg.Done()
GoroutineExit(i, failed) ==
    [run EXCEPT ![i].sem = @ - 1, ![i].wg = @ - 1]

\* root.go: the walk function gets the copy's result
CopyReturned(i, failed) ==
    IF failed
    THEN [run EXCEPT ![i].pc = "returned", ![i].result = "copyerr"]
    ELSE [run EXCEPT ![i].pc = "walk", ![i].todo = Tail(@)]

\* copyFileWithProgress returns to its caller
Returned(o, failed) ==
    IF o = Watcher
    THEN wpc' = "loop" /\ UNCHANGED run
    ELSE /\ UNCHANGED wpc
         /\ run' = IF impl = "limited" THEN GoroutineExit(o, failed)
                                       ELSE CopyReturned(o, failed)

Fail(o, p) ==
    /\ xfer' = [xfer EXCEPT ![o][p].st = "err"]
    /\ Returned(o, TRUE)

\* an open that does not notice that the file is gone
CanOpenAlways(p) == TRUE

\* os.Open(src) succeeds: src exists
CanOpen(p) == fs[p].kind # "none"

\* os.Create(dst) succeeds: the parent is a directory and dst is not one
CanCreate(dst) ==
    /\ Stat(Dir(dst)) = "ok"
    /\ fs[Dir(dst)].kind = "dir"
    /\ fs[dst].kind # "dir"

\* os.Create(dst): a new file with the default mode, or the old one truncated
Created(dst) ==
    [kind |-> "file", c1 |-> 0, c2 |-> 0, mtime |-> now,
     mode |-> IF fs[dst].kind = "file" THEN fs[dst].mode ELSE ModeCreate]

\* os.Open(src) fails when src is gone; os.Create(dst) fails when it cannot
\* create; otherwise dst exists and is empty
Begin(o, p) ==
    LET dst == xfer[o][p].dst
    IN  /\ xfer[o][p].st = "open"
        /\ \/ /\ ~CanOpen(p)
              /\ Fail(o, p)
              /\ UNCHANGED fs
           \/ /\ CanOpen(p)
              /\ ~CanCreate(dst)
              /\ Fail(o, p)
              /\ UNCHANGED fs
           \/ /\ CanOpen(p)
              /\ CanCreate(dst)
              /\ fs' = [fs EXCEPT ![dst] = Created(dst)]
              /\ xfer' = [xfer EXCEPT ![o][p].st = "copy1"]
              /\ UNCHANGED <<run, wpc>>
        /\ UNCHANGED <<config, now, upsets, nruns, watched, events, nevents,
                       errors, closed, logged,
                       startedClean, startVersion>>

\* io.Copy, first half: reading a directory fails; otherwise the bytes the
\* source holds now are written
CopyFirst(o, p) ==
    LET dst == xfer[o][p].dst
    IN  /\ xfer[o][p].st = "copy1"
        /\ \/ /\ fs[p].kind = "dir"
              /\ Fail(o, p)
              /\ UNCHANGED fs
           \/ /\ fs[p].kind # "dir"
              /\ fs' = [fs EXCEPT ![dst].c1 = fs[p].c1, ![dst].mtime = now]
              /\ xfer' = [xfer EXCEPT ![o][p].st = "copy2"]
              /\ UNCHANGED <<run, wpc>>
        /\ UNCHANGED <<config, now, upsets, nruns, watched, events, nevents,
                       errors, closed, logged,
                       startedClean, startVersion>>

\* io.Copy, second half; dstFile.Sync(); return os.Chmod(dst, srcInfo.Mode())
CopyRest(o, p) ==
    LET dst == xfer[o][p].dst
    IN  /\ xfer[o][p].st = "copy2"
        /\ fs' = [fs EXCEPT ![dst].c2 = fs[p].c2, ![dst].mtime = now,
                            ![dst].mode = SrcMode(p)]
        /\ xfer' = [xfer EXCEPT ![o][p].st = "ok"]
        /\ Returned(o, FALSE)
        /\ UNCHANGED <<config, now, upsets, nruns, watched, events, nevents,
                       errors, closed, logged,
                       startedClean, startVersion>>

\* a step fails for a reason outside the model (permissions, a full disk, an
\* I/O error) before it writes: in "open" os.Open or os.Create, in "copy1"
\* and "copy2" io.Copy
Fault(o, p) ==
    /\ Active(o, p)
    /\ upsets < MaxUpsets
    /\ upsets' = upsets + 1
    /\ Fail(o, p)
    /\ UNCHANGED <<config, fs, now, nruns, watched, events, nevents,
                   errors, closed, logged, history>>

\* the stream was copied and dstFile.Sync() or os.Chmod fails
SyncFault(o, p) ==
    LET dst == xfer[o][p].dst
    IN  /\ xfer[o][p].st = "copy2"
        /\ upsets < MaxUpsets
        /\ upsets' = upsets + 1
        /\ fs' = [fs EXCEPT ![dst].c2 = fs[p].c2, ![dst].mtime = now]
        /\ Fail(o, p)
        /\ UNCHANGED <<config, now, nruns, watched, events, nevents,
                       errors, closed, logged,
                       startedClean, startVersion>>

(***************************************************************************)
(* Scheduled mode.                                                         *)
(***************************************************************************)
\* the files a sync run has copied (its transfer returned nil) whose copy is
\* not older than the source
UpToDate ==
    {p \in SrcFiles :
        LET dst == DestPath(sourceDir, backupDir, p)
        IN  /\ \E j \in Runs : xfer[j][p].st = "ok"
            /\ fs[dst].kind = "file"
            /\ fs[p].mtime <= fs[dst].mtime}

\* gocron fires: runScheduledBackup() calls syncDirectories, whatever earlier
\* invocations are doing; filepath.Walk starts at the root
Tick ==
    /\ schedulePeriod > 0
    /\ nruns < MaxRuns
    /\ nruns' = nruns + 1
    /\ run' = [run EXCEPT ![nruns + 1] =
                  [pc |-> "walk", todo |-> <<sourceDir>>, sem |-> 0, wg |-> 0,
                   result |-> ""]]
    /\ startedClean' = [startedClean EXCEPT ![nruns + 1] = UpToDate]
    /\ startVersion' = [startVersion EXCEPT ![nruns + 1] =
                           [p \in SrcFiles |-> fs[p].c1]]
    /\ UNCHANGED <<config, fs, now, upsets, xfer, watcherVars>>

\* the walk reaches an entry that is gone: lstat fails, the walk function
\* returns the error and Walk ends with it
WalkError(i) ==
    /\ run[i].pc = "walk"
    /\ run[i].todo # <<>>
    /\ fs[Head(run[i].todo)].kind = "none"
    /\ run' = [run EXCEPT ![i].pc = "returned", ![i].result = "walkerr"]
    /\ UNCHANGED <<config, fs, now, upsets, nruns, xfer, watcherVars,
                   history>>

\* the walk function on a directory: mirror it if the mirror is absent;
\* Walk then descends into the names it read
VisitDir(i) ==
    LET path == Head(run[i].todo)
        destPath == DestPath(sourceDir, backupDir, path)
        skipped == impl = "plain" /\ Len(includePatterns) > 0
                     /\ ~matchesAnyInclude(path, includePatterns)
    IN  /\ run[i].pc = "walk"
        /\ run[i].todo # <<>>
        /\ fs[path].kind = "dir"
        /\ fs' = IF ~skipped /\ Stat(destPath) = "ENOENT"
                 THEN MkdirAll(fs, destPath, fs[path].mode)
                 ELSE fs
        /\ run' = [run EXCEPT ![i].todo = ReadDirNames(path) \o Tail(@)]
        /\ UNCHANGED <<config, now, upsets, nruns, xfer, watcherVars,
                       history>>

\* part_000, the walk function on a file: a stale included file takes
\* wg.Add(1) and goes on to acquire a permit
VisitFile(i) ==
    LET path == Head(run[i].todo)
        destPath == DestPath(sourceDir, backupDir, path)
    IN  /\ impl = "limited"
        /\ run[i].pc = "walk"
        /\ run[i].todo # <<>>
        /\ fs[path].kind = "file"
        /\ run' = IF shouldCopyFile(path, destPath) /\ shouldInclude(path)
                  THEN [run EXCEPT ![i].pc = "acquire", ![i].wg = @ + 1]
                  ELSE [run EXCEPT ![i].todo = Tail(@)]
        /\ UNCHANGED <<config, fs, now, upsets, nruns, xfer,
                       watcherVars, history>>

\* a limiter that admits without looking at the permits in use
SemFreeUnbounded(i) == TRUE

\* the permit is free: sem <- struct{}{} returns
SemFree(i) == run[i].sem < maxConcurrentTransfers

\* part_000: sem <- struct{}{}; go func(src, dst) {...}(path, destPath)
Acquire(i) ==
    LET path == Head(run[i].todo)
    IN  /\ run[i].pc = "acquire"
        /\ SemFree(i)
        /\ run' = [run EXCEPT ![i].pc = "walk", ![i].sem = @ + 1,
                              ![i].todo = Tail(@)]
        /\ xfer' = [xfer EXCEPT ![i][path] =
                       [st |-> "open",
                        dst |-> DestPath(sourceDir, backupDir, path)]]
        /\ UNCHANGED <<config, fs, now, upsets, nruns, watcherVars,
                       history>>

\* root.go, the walk function on a file: the include guard, then a stale
\* file is copied before the walk goes on
VisitFilePlain(i) ==
    LET path == Head(run[i].todo)
        destPath == DestPath(sourceDir, backupDir, path)
        skipped == Len(includePatterns) > 0
                     /\ ~matchesAnyInclude(path, includePatterns)
    IN  /\ impl = "plain"
        /\ run[i].pc = "walk"
        /\ run[i].todo # <<>>
        /\ fs[path].kind = "file"
        /\ IF ~skipped /\ shouldCopyFile(path, destPath)
           THEN /\ run' = [run EXCEPT ![i].pc = "copying"]
                /\ xfer' = [xfer EXCEPT ![i][path] =
                               [st |-> "open", dst |-> destPath]]
           ELSE /\ run' = [run EXCEPT ![i].todo = Tail(@)]
                /\ UNCHANGED xfer
        /\ UNCHANGED <<config, fs, now, upsets, nruns, watcherVars,
                       history>>

\* filepath.Walk has visited everything: syncDirectories returns its result
\* ("return filepath.Walk(...)"; the wg.Wait() after it is never reached)
WalkDone(i) ==
    /\ run[i].pc = "walk"
    /\ run[i].todo = <<>>
    /\ run' = [run EXCEPT ![i].pc = "returned", ![i].result = "nil"]
    /\ UNCHANGED <<config, fs, now, upsets, nruns, xfer, watcherVars,
                   history>>

(***************************************************************************)
(* The user changes the source tree.                                       *)
(***************************************************************************)
\* a source file is rewritten, within the clock's current tick or after it
ModifySource(p, t) ==
    /\ upsets < MaxUpsets
    /\ fs[p].kind = "file"
    /\ upsets' = upsets + 1
    /\ now' = t
    /\ fs' = [fs EXCEPT ![p].c1 = @ + 1, ![p].c2 = @ + 1, ![p].mtime = t]
    /\ UNCHANGED <<config, nruns, run, xfer, watcherVars, startedClean,
                   startVersion>>

\* a source file is removed; descriptors open on it still read its content,
\* which the entry keeps
DeleteSource(p) ==
    /\ upsets < MaxUpsets
    /\ fs[p].kind = "file"
    /\ upsets' = upsets + 1
    /\ fs' = [fs EXCEPT ![p].kind = "none"]
    /\ UNCHANGED <<config, now, nruns, run, xfer, watcherVars,
                   startedClean, startVersion>>

(***************************************************************************)
(* Watch mode: runRealTimeSync.                                            *)
(***************************************************************************)
\* the directories watcher.Add is called on during setup; root.go with an
\* include list builds pathsToWatch and never adds it to the watcher
WatchSet ==
    IF impl = "plain" /\ Len(includePatterns) > 0 THEN {}
    ELSE {p \in SrcPaths : fs[p].kind = "dir"}

StartWatch ==
    /\ wpc = "start"
    /\ watched' = WatchSet
    /\ wpc' = "loop"
    /\ UNCHANGED <<config, fs, now, upsets, nruns, run, xfer, events,
                   nevents, errors, closed, logged, history>>

\* the notifier reports an operation on a watched directory or an entry of one
Notify(p, op) ==
    /\ wpc \in {"loop", "copying"}
    /\ "Events" \notin closed
    /\ nevents < MaxEvents
    /\ p \in watched \/ Dir(p) \in watched
    /\ events' = Append(events, [name |-> p, op |-> op])
    /\ nevents' = nevents + 1
    /\ UNCHANGED <<config, fs, now, upsets, nruns, run, xfer, watched,
                   errors, closed, logged, wpc, history>>

\* the notifier reports an error of its own
NotifyError ==
    /\ wpc \in {"loop", "copying"}
    /\ "Errors" \notin closed
    /\ nevents < MaxEvents
    /\ errors' = errors + 1
    /\ nevents' = nevents + 1
    /\ UNCHANGED <<config, fs, now, upsets, nruns, run, xfer, watched,
                   events, closed, logged, wpc, history>>

\* the notifier closes one of its channels
CloseChannel(ch) ==
    /\ wpc \in {"loop", "copying"}
    /\ ch \notin closed
    /\ closed' = closed \cup {ch}
    /\ UNCHANGED <<config, fs, now, upsets, nruns, run, xfer, watched,
                   events, nevents, errors, logged, wpc, history>>

\* event.Op&fsnotify.Write == fsnotify.Write || event.Op&fsnotify.Create == fsnotify.Create
WriteOrCreate(op) == "Write" \in op \/ "Create" \in op

\* the filter the event loop applies to event.Name
eventFilter(name) ==
    IF impl = "limited" THEN shouldInclude(name)
    ELSE shouldWatch(name, includePatterns)

\* an event loop that does not apply the filter
DispatchesUnfiltered(e) == WriteOrCreate(e.op)

\* whether the event loop copies for this event
Dispatches(e) == WriteOrCreate(e.op) /\ eventFilter(e.name)

\* an event loop that hands the copy to a goroutine of its own and goes on
InCallSpawned == "loop"

\* where the event loop is while copyFileWithProgress(event.Name, destPath)
\* runs: inside the call
InCall == "copying"

\* case event, ok := <-watcher.Events
HandleEvent ==
    LET e == Head(events)
    IN  /\ wpc = "loop"
        /\ "Events" \notin closed
        /\ events # <<>>
        /\ events' = Tail(events)
        /\ IF Dispatches(e)
           THEN /\ wpc' = InCall
                /\ xfer' = [xfer EXCEPT ![Watcher][e.name] =
                               [st |-> "open",
                                dst |-> DestPath(sourceDir, backupDir, e.name)]]
           ELSE UNCHANGED <<wpc, xfer>>
        /\ UNCHANGED <<config, fs, now, upsets, nruns, run, watched,
                       nevents, errors, closed, logged, history>>

\* an event loop that returns when the notifier reports an error
AfterErrorStops == "done"

\* where the event loop goes after fmt.Println("Error:", err)
AfterError == "loop"

\* case err, ok := <-watcher.Errors, with a value: the error is printed
HandleError ==
    /\ wpc = "loop"
    /\ "Errors" \notin closed
    /\ errors > 0
    /\ errors' = errors - 1
    /\ logged' = logged + 1
    /\ wpc' = AfterError
    /\ UNCHANGED <<config, fs, now, upsets, nruns, run, xfer, watched,
                   events, nevents, closed, history>>

\* either case of the select on a closed channel: if !ok { return }
LoopExit ==
    /\ wpc = "loop"
    /\ closed # {}
    /\ wpc' = "done"
    /\ UNCHANGED <<config, fs, now, upsets, nruns, run, xfer, watched,
                   events, nevents, errors, closed, logged, history>>

(***************************************************************************)
(* The program.                                                            *)
(***************************************************************************)
Next ==
    \/ Tick
    \/ \E i \in Runs : WalkError(i)
    \/ \E i \in Runs : VisitDir(i)
    \/ \E i \in Runs : VisitFile(i)
    \/ \E i \in Runs : Acquire(i)
    \/ \E i \in Runs : VisitFilePlain(i)
    \/ \E i \in Runs : WalkDone(i)
    \/ \E o \in Owners, p \in SrcPaths : Begin(o, p)
    \/ \E o \in Owners, p \in SrcPaths : CopyFirst(o, p)
    \/ \E o \in Owners, p \in SrcPaths : CopyRest(o, p)
    \/ \E o \in Owners, p \in SrcPaths : Fault(o, p)
    \/ \E o \in Owners, p \in SrcPaths : SyncFault(o, p)
    \/ \E p \in UserFiles, t \in {now, now + 1} : ModifySource(p, t)
    \/ \E p \in UserFiles : DeleteSource(p)
    \/ StartWatch
    \/ \E p \in SrcPaths, op \in OpChoices : Notify(p, op)
    \/ HandleEvent
    \/ NotifyError
    \/ \E ch \in {"Events", "Errors"} : CloseChannel(ch)
    \/ HandleError
    \/ LoopExit

Spec == Init /\ [][Next]_vars


(***************************************************************************)
(* Properties.                                                             *)
(***************************************************************************)
Limited == impl = "limited" /\ schedulePeriod > 0
AllInFlight == {op \in Runs \X SrcPaths : Active(op[1], op[2])}
Mirror(p) == DestPath(sourceDir, backupDir, p)

\* C1. Barrier: when an invocation of the concurrency-limited
\* syncDirectories has returned, none of the transfers it dispatched is
\* still in flight.
C1_Barrier ==
    \A i \in Runs :
        Limited /\ run[i].pc = "returned" => InFlight(i) = {}

\* C2. Within one invocation configured with N permits, the transfers that
\* were started and have not finished are never more than N.
C2_PermitBound ==
    \A i \in Runs :
        Limited => Cardinality(InFlight(i)) <= maxConcurrentTransfers

\* the limiter holds a walk back: one permit, taken, and the walk waiting
C2_Witness ==
    \E i \in Runs :
        /\ Limited
        /\ maxConcurrentTransfers = 1
        /\ run[i].pc = "acquire"
        /\ Cardinality(InFlight(i)) = 1

\* C3. In scheduled mode the in-flight transfers of all invocations together
\* are never more than N.
C3_ProcessBound ==
    Limited => Cardinality(AllInFlight) <= maxConcurrentTransfers

\* C4. No slot leak: the permits held are the transfers admitted and not yet
\* finished, so that with no transfer left in flight every permit is free
\* and a walk waiting to acquire can be admitted.
C4_NoSlotLeak ==
    \A i \in Runs :
        Limited =>
            /\ run[i].sem = Cardinality(InFlight(i))
            /\ (run[i].pc = "acquire" /\ InFlight(i) = {} => SemFree(i))

\* the source file has the content it had when run i started
Unchanged(i, p) == fs[p].c1 = startVersion[i][p]

\* C5. Idempotence: a file that a sync run copied and that is not modified
\* afterwards (its modification time is not after its copy's) gets no
\* transfer from any run that starts later: the later run never opens,
\* truncates or writes its destination.
C5_Idempotent ==
    \A i \in Runs : \A p \in SrcFiles :
        p \in startedClean[i] /\ Unchanged(i, p) => xfer[i][p].st = "none"

\* a later run walked the whole tree past a file that had been copied
C5_Witness ==
    \E i \in Runs : \E p \in SrcFiles :
        /\ p \in startedClean[i]
        /\ Unchanged(i, p)
        /\ run[i].pc = "returned"
        /\ run[i].result = "nil"
        /\ xfer[i][p].st = "none"

\* the inclusion rule of the running implementation: no patterns, or some
\* pattern is part of the base name (root.go: or of the directory's path)
Included(p) ==
    \/ includePatterns = <<>>
    \/ \E k \in DOMAIN includePatterns :
          \/ Contains(Base(p), includePatterns[k])
          \/ impl = "plain" /\ Contains(Dir(p), includePatterns[k])

\* the destination holds the source's content and permission bits
DstMatches(p) ==
    /\ fs[Mirror(p)].kind = "file"
    /\ fs[Mirror(p)].c1 = fs[p].c1
    /\ fs[Mirror(p)].c2 = fs[p].c2
    /\ fs[Mirror(p)].mode = SrcMode(p)

\* every transfer started so far has returned nil
AllSucceeded == \A j \in Runs : \A q \in SrcPaths : xfer[j][q].st \in {"none", "ok"}

\* C6. A file that was modified before its last copy started, while that
\* copy was streaming or after it finished has its current content and
\* permission bits in the backup once the next run has ended with every
\* transfer successful. Stated for a run that starts when the earlier copy
\* has returned nil and is not older than the source.
C6_Original ==
    \A i \in Runs : \A p \in SrcFiles :
        /\ run[i].pc = "returned"
        /\ run[i].result = "nil"
        /\ AllSucceeded
        /\ startVersion[i][p] > 1
        /\ p \in startedClean[i]
        /\ Unchanged(i, p)
        /\ fs[p].kind = "file"
        /\ Included(p)
        => DstMatches(p)

\* the source path a destination path mirrors
SourceOf(d) == Join(sourceDir, Rel(backupDir, d))
NoSourceEntry(d) == SourceOf(d) \notin SrcPaths \/ fs[SourceOf(d)].kind = "none"
SourceHeldOpen(d) ==
    SourceOf(d) \in SrcPaths /\ \E o \in Owners : HoldsSource(o, SourceOf(d))

\* C7, as claimed. No step creates, truncates, writes, chmods or removes a
\* destination entry whose path has no entry in the source tree.
C7_Original ==
    [][\A d \in DstPaths : NoSourceEntry(d) => fs'[d] = fs[d]]_vars

\* C7, amended. A destination entry whose path has no entry in the source
\* tree is never removed, and it is changed only by a transfer that had
\* opened the source before the source was removed.
C7_NoDeletion ==
    [][\A d \in DstPaths :
          NoSourceEntry(d) =>
              /\ fs[d].kind # "none" => fs'[d].kind = fs[d].kind
              /\ ~SourceHeldOpen(d) => fs'[d] = fs[d]]_vars

\* a transfer found its source removed and left the old copy alone
C7_Witness ==
    \E p \in SrcFiles : \E o \in Owners :
        /\ fs[p].kind = "none"
        /\ xfer[o][p].st = "err"
        /\ fs[Mirror(p)].kind = "file"
        /\ fs[Mirror(p)].c2 = fs[p].c2
        /\ fs[Orphan].kind = "file"

\* C8. A copy error is not returned as the invocation's walk failure.
C8_SiblingsSurvive ==
    \A i \in Runs : run[i].result # "copyerr"

\* C9. The event loop, taking a notification: for a regular file it runs a
\* transfer to the mirrored path exactly when the operation includes Create
\* or Write and the path is included, whatever the two modification times
\* are; otherwise nothing is dispatched or written.
C9_DispatchRule ==
    [][wpc = "loop" /\ events # <<>> /\ events' = Tail(events) =>
         LET e == Head(events)
             go == ("Create" \in e.op \/ "Write" \in e.op) /\ Included(e.name)
         IN  /\ fs[e.name].kind = "file" /\ go =>
                  /\ wpc' = "copying"
                  /\ xfer'[Watcher][e.name] =
                        [st |-> "open", dst |-> Mirror(e.name)]
             /\ ~go => wpc' = "loop" /\ xfer' = xfer /\ fs' = fs]_vars

\* under an include list, a transfer is dispatched for a file whose copy is
\* not older than it
C9_Witness ==
    \E p \in SrcFiles :
        /\ includePatterns # <<>>
        /\ wpc = "copying"
        /\ xfer[Watcher][p].st = "open"
        /\ fs[Mirror(p)].kind = "file"
        /\ fs[p].mtime <= fs[Mirror(p)].mtime

\* C10. A notification for a directory starts no transfer and creates no
\* file in the backup tree.
C10_DirsIgnored ==
    \A p \in SrcPaths :
        fs[p].kind = "dir" =>
            xfer[Watcher][p].st = "none" /\ fs[Mirror(p)].kind # "file"

(***************************************************************************)
(* The detector and the filter on arbitrary trees and rule sets: one sync  *)
(* run, or one notification, with no change from outside, started on every *)
(* combination of copy times and include lists below.                      *)
(***************************************************************************)
\* the include lists tried: none, the empty pattern, a file name, a
\* directory name, a name that occurs nowhere in the source tree, a name
\* that occurs only in the source root's path, and a list of two
FilterChoices ==
    {<<>>, << <<>> >>, << <<"a">> >>, << <<"d">> >>, << <<"x">> >>,
     << <<"s">> >>, << <<"x">>, <<"b">> >>}

\* what the backup tree holds at the place of /s/d: nothing, a directory,
\* or a regular file (every os.Stat below it then fails with ENOTDIR)
MirrorKinds == {"none", "dir", "file"}

\* a tree whose source files were modified at time 1; the copy of /s/a was
\* written at time a, the copy of /s/d/b at time b (MaxStamp + 1: no copy)
StampedTree(a, d, b) ==
    [p \in Universe |->
        IF p \in SrcFiles THEN FileEntry(1, 1, SrcMode(p))
        ELSE IF p \in {FsRoot, sourceDir, DirD} THEN DirEntry(SrcMode(p))
        ELSE IF p = backupDir THEN DirEntry(ModeDir)
        ELSE IF p = Mirror(FileA)
             THEN IF a > MaxStamp THEN NoEntry ELSE FileEntry(7, a, ModeCreate)
        ELSE IF p = Mirror(DirD)
             THEN IF d = "dir" THEN DirEntry(ModeDir)
                  ELSE IF d = "file" THEN FileEntry(7, 0, ModeCreate)
                  ELSE NoEntry
        ELSE IF p = Mirror(FileB)
             THEN IF d = "dir" /\ b <= MaxStamp
                  THEN FileEntry(7, b, ModeCreate) ELSE NoEntry
        ELSE NoEntry]

StampedTrees ==
    {StampedTree(a, d, b) :
        a \in 0..(MaxStamp + 1), d \in MirrorKinds, b \in 0..(MaxStamp + 1)}

InitFn ==
    /\ impl \in {"limited", "plain"}
    /\ schedulePeriod \in {0, 1}
    /\ maxConcurrentTransfers = 1
    /\ includePatterns \in FilterChoices
    /\ fs \in StampedTrees
    /\ now = MaxStamp
    /\ upsets = MaxUpsets
    /\ nruns = MaxRuns - 1
    /\ run = [i \in Runs |-> IdleRun]
    /\ xfer = [o \in Owners |-> [p \in SrcPaths |-> NoXfer]]
    /\ watched = {}
    /\ events = <<>>
    /\ nevents = MaxEvents - 1
    /\ errors = 0
    /\ closed = {}
    /\ logged = 0
    /\ wpc = IF schedulePeriod > 0 THEN "off" ELSE "start"
    /\ startedClean = [i \in Runs |-> {}]
    /\ startVersion = [i \in Runs |-> [p \in SrcFiles |-> 0]]

NextFn ==
    \/ Tick
    \/ \E i \in Runs : VisitDir(i)
    \/ \E i \in Runs : VisitFile(i)
    \/ \E i \in Runs : Acquire(i)
    \/ \E i \in Runs : VisitFilePlain(i)
    \/ \E i \in Runs : WalkDone(i)
    \/ \E o \in Owners, p \in SrcPaths : Begin(o, p)
    \/ \E o \in Owners, p \in SrcPaths : CopyFirst(o, p)
    \/ \E o \in Owners, p \in SrcPaths : CopyRest(o, p)
    \/ StartWatch
    \/ \E p \in SrcPaths, op \in OpChoices : Notify(p, op)
    \/ HandleEvent

SpecFn == InitFn /\ [][NextFn]_vars

\* the walk of run i takes its step on the file it has reached
Visits(i, p) ==
    /\ run[i].pc = "walk"
    /\ run[i].todo # <<>>
    /\ Head(run[i].todo) = p
    /\ fs[p].kind = "file"
    /\ (run'[i].pc # run[i].pc \/ run'[i].todo # run[i].todo)

\* that step selects the file for transfer
Selects(i) == run'[i].pc \in {"acquire", "copying"}

\* nothing is at the path d, and the path can be looked up
Missing(d) == fs[d].kind = "none" /\ \A q \in Ancestors(d) : fs[q].kind # "file"

\* the path d cannot be looked up: it lies below a regular file
Unreachable(d) == \E q \in Ancestors(d) \ {d} : fs[q].kind = "file"

\* C11. Staleness Detector: for an included file the walk reaches, the
\* detector answers true when the destination does not exist, false when
\* the destination cannot be looked up for another reason, and otherwise
\* true exactly when the source's modification time is strictly after the
\* destination's (equal times give false).
C11_Staleness ==
    [][\A i \in Runs : \A p \in SrcFiles :
          Visits(i, p) /\ Included(p) =>
              /\ Missing(Mirror(p)) => Selects(i)
              /\ Unreachable(Mirror(p)) => ~Selects(i)
              /\ ~Missing(Mirror(p)) /\ ~Unreachable(Mirror(p)) =>
                     (Selects(i) <=> fs[p].mtime > fs[Mirror(p)].mtime)]_vars

\* a run has walked past a file whose copy carries the same time and past a
\* file whose destination lies below a regular file, copying neither
C11_Witness ==
    \E i \in Runs :
        /\ run[i].pc = "returned"
        /\ run[i].result = "nil"
        /\ includePatterns = <<>>
        /\ fs[Mirror(FileA)].kind = "file"
        /\ fs[Mirror(FileA)].mtime = fs[FileA].mtime
        /\ fs[Mirror(DirD)].kind = "file"
        /\ xfer[i][FileA].st = "none"
        /\ xfer[i][FileB].st = "none"

\* pat occurs in s: some stretch of s, possibly empty, spells pat
IsSubstring(pat, s) ==
    \E i \in 1..(Len(s) + 1) :
        /\ i + Len(pat) - 1 <= Len(s)
        /\ \A k \in 1..Len(pat) : s[i + k - 1] = pat[k]

\* some pattern of the include list occurs in s
SomePatternIn(s) ==
    \E k \in DOMAIN includePatterns : IsSubstring(includePatterns[k], s)

\* what the batch path of the running implementation does with a path
BatchFilter(p) ==
    IF impl = "limited" THEN shouldInclude(p)
    ELSE ~(Len(includePatterns) > 0 /\ ~matchesAnyInclude(p, includePatterns))

C13_DirBeforeFile ==
    \A i \in Runs : \A p \in SrcFiles :
        xfer[i][p].st = "open" =>
            /\ fs[backupDir].kind = "dir"
            /\ fs[Dir(Mirror(p))].kind = "dir"

\* C14. In watch mode the destination's parent directory exists once the
\* watcher's transfer of a file is past its first step (the watcher having
\* created it where it was missing), and the transfer does not fail for
\* want of it.
C14_WatchMakesParent ==
    \A p \in SrcFiles :
        xfer[Watcher][p].st \notin {"none", "open"} =>
            /\ fs[Dir(Mirror(p))].kind = "dir"
            /\ xfer[Watcher][p].st = "err" => upsets > 0

\* the places the include list names under the source root
ListedPaths ==
    {Join(sourceDir, includePatterns[k]) : k \in DOMAIN includePatterns}

\* C15. Watch subscription scope: once the watch is set up, the registered
\* set is every directory under the source root when the include list is
\* empty, and the listed places under the source root, and only those, when
\* it is not.
C15_Subscription ==
    wpc \in {"loop", "copying"} =>
        watched = IF includePatterns = <<>>
                  THEN {p \in SrcPaths : fs[p].kind = "dir"}
                  ELSE ListedPaths

(***************************************************************************)
(* Watch mode on its own, with the scheduling the Go runtime gives: a      *)
(* transfer the event loop has called takes its steps, and an event loop   *)
(* whose select has a closed channel to receive from takes that case.      *)
(***************************************************************************)
InitWatch == Init /\ schedulePeriod = 0

WatcherCopies ==
    \E p \in SrcPaths :
        Begin(Watcher, p) \/ CopyFirst(Watcher, p) \/ CopyRest(Watcher, p)

NextWatch ==
    \/ StartWatch
    \/ \E p \in SrcPaths, op \in OpChoices : Notify(p, op)
    \/ NotifyError
    \/ \E ch \in {"Events", "Errors"} : CloseChannel(ch)
    \/ HandleEvent
    \/ HandleError
    \/ LoopExit
    \/ WatcherCopies
    \/ \E p \in SrcPaths : Fault(Watcher, p)

SpecWatch ==
    InitWatch /\ [][NextWatch]_vars /\ WF_vars(WatcherCopies) /\ WF_vars(LoopExit)

\* C16. Watch loop lifecycle: the step that receives a value from the error
\* channel prints it and leaves the loop running, with the waiting events
\* untouched; once a channel of the notifier is closed the loop ends; and
\* after it has ended no transfer is started.
C16_Lifecycle ==
    /\ [][errors' < errors =>
             /\ logged' = logged + 1
             /\ wpc' = "loop"
             /\ events' = events
             /\ xfer' = xfer]_vars
    /\ [][wpc = "done" => wpc' = "done" /\ xfer' = xfer]_vars
    /\ (closed # {} ~> wpc = "done")

\* an error has been printed and the loop has gone on to start a transfer
C16_Witness ==
    \E p \in SrcFiles :
        /\ logged > 0
        /\ wpc = "copying"
        /\ xfer[Watcher][p].st = "open"

\* C17. The limiter has at least one permit: a walk that has reached the
\* acquire for a stale included file is admitted at once, or is waiting for
\* a permit that a running transfer of its invocation holds and will give
\* back; it never waits on a limiter that has nothing to give.
C17_MinimumOne ==
    \A i \in Runs :
        Limited /\ run[i].pc = "acquire" =>
            run[i].sem < maxConcurrentTransfers \/ run[i].sem > 0

\* C18. Implicit retry: when the walk of a run reaches an included file
\* whose earlier transfer failed, whose source is what it was when the run
\* started, whose destination does not hold the source's content and
\* permission bits, and which no transfer is working on, the run dispatches
\* a new transfer of the file.
C18_ImplicitRetry ==
    [][\A i \in Runs : \A p \in SrcFiles :
          /\ Visits(i, p)
          /\ Included(p)
          /\ \E j \in Runs : xfer[j][p].st = "err"
          /\ \A j \in Runs : ~Active(j, p)
          /\ Unchanged(i, p)
          /\ ~DstMatches(p)
          => Selects(i)]_vars

\* the transfers the event loop has started that have not returned
WatcherInFlight == {p \in SrcPaths : Active(Watcher, p)}

\* C19. In watch mode the event loop serializes the transfers: at most one
\* is in flight, and the loop is inside it; a transfer is started only by
\* the loop taking the notification that has waited longest, for that
\* notification's path; and while a transfer runs no notification and no
\* notifier error is taken.
C19_Serialized ==
    /\ [](/\ Cardinality(WatcherInFlight) <= 1
          /\ (WatcherInFlight # {} <=> wpc = "copying"))
    /\ [][\A p \in SrcPaths :
            xfer'[Watcher][p] # xfer[Watcher][p] /\ xfer'[Watcher][p].st = "open"
            => /\ wpc = "loop"
               /\ events # <<>>
               /\ Head(events).name = p
               /\ events' = Tail(events)]_vars
    /\ [][wpc = "copying" =>
            /\ Len(events') >= Len(events)
            /\ errors' >= errors
            /\ logged' = logged]_vars

\* a notification that would start a transfer waits while one is streaming
C19_Witness ==
    \E p \in SrcFiles :
        /\ wpc = "copying"
        /\ xfer[Watcher][p].st = "copy2"
        /\ events # <<>>
        /\ Dispatches(Head(events))

\* the sync runs whose transfer of p has created the destination and has
\* not returned
Writers(p) == {i \in Runs : HoldsSource(i, p)}

\* C20. Single writer: in scheduled mode no two transfers are writing the
\* same destination path at the same time.
C20_SingleWriter ==
    \A p \in SrcFiles : schedulePeriod > 0 => Cardinality(Writers(p)) <= 1

=============================================================================
